---- MODULE Spec2Model ----
(***************************************************************************)
(* Taxonomic resolution, caching and distance aggregation                  *)
(* (taxon.py, dist_pwy_rxn.py).                                            *)
(*                                                                         *)
(* Python values are modelled with their type: a str is [ty |-> "str",     *)
(* val |-> <<characters>>], an int is [ty |-> "int", val |-> <<digits>>],  *)
(* None is [ty |-> "none", val |-> <<>>].  A list is a sequence; the       *)
(* constructor only tests lists for truth, so None and [] are both <<>>.   *)
(***************************************************************************)
EXTENDS Integers, Sequences, FiniteSets, TLC

VARIABLES
    pc,             \* position of the main program
    args,           \* the parsed command line: fromjson, tojson, padmet, orga
    metacyc_taxa,   \* all_taxa returned by pathway_info
    reactions_asso_taxa, \* rxn_in_pwy returned by pathway_info
    jsonfile,       \* content of the json cache file, NoFile when absent
    taxoinfo,       \* label -> Taxon
    tax_info,       \* the dict turn_taxa_into_taxonomic_info is filling
    todo,           \* labels turn_taxa_into_taxonomic_info has not visited yet
    taxodist,       \* label -> distance
    rxn_asso_dist,  \* reaction -> distance
    printed,        \* what the run printed as its count, -1 before
    error,          \* the exception that ended the run, "none" otherwise
    calls,          \* the requests sent to NCBI and the sleeps, in order
    outcome,        \* label -> what its Taxon construction raised ("none" = built)
    fetched,        \* the (label, id) pairs turn_taxa_into_taxonomic_info requested
    target_orga,    \* the Taxon of the organism of interest
    q,              \* get_distance_between_two_taxa alone: self
    t,              \* get_distance_between_two_taxa alone: anothertaxon
    penalty,        \* get_distance_between_two_taxa alone: penalty_price
    dist,           \* get_distance_between_two_taxa alone: the value returned
    jdata,          \* write_json alone: the dict given to it
    jread,          \* read_json alone: what it returned or raised
    rxndata,        \* associate_rxn_dist alone: rxndata
    taxdistdata,    \* associate_rxn_dist alone: taxdistdata
    all_rxn_dist    \* associate_rxn_dist alone: the dict returned

mainVars == <<pc, args, metacyc_taxa, reactions_asso_taxa, taxoinfo, tax_info, todo,
              taxodist, rxn_asso_dist, printed, error, calls, outcome, fetched,
              target_orga>>
distVars == <<q, t, penalty, dist>>
jsonVars == <<jdata, jread>>
aggVars  == <<rxndata, taxdistdata, all_rxn_dist>>
vars == <<mainVars, jsonfile, distVars, jsonVars, aggVars>>

----------------------------------------------------------------------------
(* Bounds of the model *)

NumNodes == 5       \* taxa the directory knows: 1 (root) .. NumNodes
NumLabels == 2      \* labels of the reference database: Label(1) .. Label(NumLabels)
NumRxn == 2         \* reactions of the reference database
NumTxn == 3         \* labels drawn for associate_rxn_dist alone
MaxLineage == 3     \* longest lineage drawn for get_distance_between_two_taxa
MaxDist == 2        \* largest distance drawn for associate_rxn_dist alone

----------------------------------------------------------------------------
(* Python values *)

None == [ty |-> "none", val |-> <<>>]
PyStr(s) == [ty |-> "str", val |-> s]
PyInt(d) == [ty |-> "int", val |-> d]

\* bool(v) for None, str and int
Truthy(v) ==
    CASE v.ty = "none" -> FALSE
      [] v.ty = "str"  -> v.val # <<>>
      [] v.ty = "int"  -> v.val # <<"0">>

DigitChar(d) == <<"0", "1", "2", "3", "4", "5", "6", "7", "8", "9">>[d + 1]

RECURSIVE Digits(_)
\* str(n) for n >= 0
Digits(n) == IF n < 10 THEN <<DigitChar(n)>>
             ELSE Digits(n \div 10) \o <<DigitChar(n % 10)>>

RECURSIVE lstrip(_, _)
lstrip(s, chars) ==
    IF s # <<>> /\ Head(s) \in chars THEN lstrip(Tail(s), chars) ELSE s

RECURSIVE rstrip(_, _)
rstrip(s, chars) ==
    IF s # <<>> /\ s[Len(s)] \in chars
    THEN rstrip(SubSeq(s, 1, Len(s) - 1), chars) ELSE s

\* str.strip(chars): removes leading and trailing characters that are in chars
strip(s, chars) == rstrip(lstrip(s, chars), chars)

RECURSIVE split(_, _, _)
\* str.split(sep) for a two-character separator; cur is the piece being read
split(s, sep, cur) ==
    IF s = <<>> THEN <<cur>>
    ELSE IF Len(s) >= Len(sep) /\ SubSeq(s, 1, Len(sep)) = sep
         THEN <<cur>> \o split(SubSeq(s, Len(sep) + 1, Len(s)), sep, <<>>)
         ELSE split(Tail(s), sep, cur \o <<Head(s)>>)

RECURSIVE join(_, _)
\* sep.join(pieces)
join(pieces, sep) ==
    IF pieces = <<>> THEN <<>>
    ELSE IF Len(pieces) = 1 THEN pieces[1]
         ELSE pieces[1] \o sep \o join(Tail(pieces), sep)

Range(f) == {f[x] : x \in DOMAIN f}

EmptyMap == [x \in {} |-> x]

----------------------------------------------------------------------------
(* The NCBI taxonomy as Entrez answers it.  Taxon n has parent n \div 2;   *)
(* taxon 1 is the root.  LineageEx and Lineage list the ancestors below    *)
(* the root, and an entry with no such ancestor has no LineageEx key.      *)

Nodes == 1..NumNodes

ScientificName(n) == <<"n">> \o Digits(n)

RECURSIVE Ancestors(_)
\* the ancestors of n below the root, root-first, n excluded
Ancestors(n) ==
    IF n \div 2 <= 1 THEN <<>> ELSE Ancestors(n \div 2) \o <<n \div 2>>

\* record[0] of Entrez.read(Entrez.efetch(db="taxonomy", id=n))
Entry(n) ==
    LET anc == Ancestors(n)
        base == [ScientificName |-> PyStr(ScientificName(n)),
                 Lineage |-> join([i \in 1..Len(anc) |-> ScientificName(anc[i])],
                                  <<";", " ">>),
                 ParentTaxId |-> PyStr(Digits(n \div 2))]
    IN  IF anc = <<>> THEN base
        ELSE base @@ [LineageEx |-> [i \in 1..Len(anc) |->
                                        [TaxId |-> PyStr(Digits(anc[i]))]]]

\* the taxa whose identifier reads as the value id (a str or an int)
NodesOfId(id) == {n \in Nodes : Digits(n) = id.val}

\* record["IdList"] of Entrez.read(Entrez.esearch(db="taxonomy", term=name))
IdList(name) ==
    LET hits == {n \in Nodes : ScientificName(n) = name.val}
    IN  IF hits = {} THEN <<>> ELSE <<PyStr(Digits(CHOOSE n \in hits : TRUE))>>

\* What a request to NCBI can do: answer ("ok"), or raise in the HTTP layer.
\* urllib raises HTTPError for an error status, URLError when the server is
\* not reached and TimeoutError when it does not answer in time; HTTPError is
\* a subclass of URLError, not the reverse.  Entrez.read raises TypeError on
\* a handle it cannot read.
SearchOutcomes == {"ok", "HTTPError", "URLError"}
FetchOutcomes == {"ok", "TypeError", "HTTPError", "URLError", "TimeoutError"}

----------------------------------------------------------------------------
(* taxon.py *)

\* except (TypeError, IndexError) of get_taxid_from_name
SearchCaught == {"TypeError", "IndexError"}

\* except (TypeError, IndexError, HTTPError) of Taxon.__init__
FetchCaught == {"TypeError", "IndexError", "HTTPError"}

\* Taxon.get_taxid_from_name; so is what the esearch request does
get_taxid_from_name(scientific_name, so) ==
    IF so # "ok"
    THEN [exc |-> so, taxid |-> None, calls |-> <<"esearch">>]
    ELSE LET ids == IdList(scientific_name)
             raised == IF ids = <<>> THEN "IndexError" ELSE "none"
         IN  IF raised = "none"
             THEN [exc |-> "none", taxid |-> ids[1], calls |-> <<"esearch">>]
             ELSE [exc |-> IF raised \in SearchCaught THEN "TaxonNotFound"
                           ELSE raised,
                   taxid |-> None, calls |-> <<"esearch">>]

\* the comparison self.taxid==1 of Taxon.__init__ and anothertaxon.taxid == 1
\* of get_distance_between_two_taxa: a str never equals the int 1
IsOne(taxid) == taxid = PyInt(<<"1">>)

\* the attributes Taxon.__init__ sets after a successful efetch
FetchedTaxon(taxid, entry) ==
    LET scientific_name == entry.ScientificName
        lineage_taxa_name ==
            [i \in 1..Len(split(entry.Lineage, <<";", " ">>, <<>>)) |->
                PyStr(split(entry.Lineage, <<";", " ">>, <<>>)[i])]
            \o <<scientific_name>>
        lineage_taxa_id ==
            IF "LineageEx" \in DOMAIN entry
            THEN [i \in 1..Len(entry.LineageEx) |-> entry.LineageEx[i].TaxId]
                 \o <<taxid>>
            ELSE <<taxid>>
    IN  [taxid |-> taxid,
         scientific_name |-> scientific_name,
         lineage_taxa_name |-> lineage_taxa_name,
         lineage_taxa_id |-> lineage_taxa_id,
         parent_taxid |-> entry.ParentTaxId,
         dist_to_root |-> IF IsOne(taxid) THEN 0 ELSE Len(lineage_taxa_id)]

\* Taxon.__init__; so and fo are what the esearch and the efetch request do.
\* Returns the exception raised ("none" when the object is built), the
\* object's __dict__ and the requests sent.
Taxon(taxid, scientific_name, lineage_taxa_name, lineage_taxa_id, parent_taxid, so, fo) ==
    IF /\ Truthy(taxid) /\ Truthy(scientific_name) /\ lineage_taxa_name # <<>>
       /\ Truthy(parent_taxid) /\ lineage_taxa_id # <<>>
    THEN [exc |-> "none",
          obj |-> [taxid |-> taxid, scientific_name |-> scientific_name,
                   lineage_taxa_name |-> lineage_taxa_name,
                   lineage_taxa_id |-> lineage_taxa_id,
                   parent_taxid |-> parent_taxid],
          calls |-> <<>>]
    ELSE IF ~Truthy(taxid) /\ ~Truthy(scientific_name)
    THEN [exc |-> "TaxonInvalidInput", obj |-> None, calls |-> <<>>]
    ELSE LET s == IF ~Truthy(taxid)
                  THEN get_taxid_from_name(scientific_name, so)
                  ELSE [exc |-> "none", taxid |-> taxid, calls |-> <<>>]
             hits == NodesOfId(s.taxid)
             raised == IF fo # "ok" THEN fo
                       ELSE IF hits = {} THEN "IndexError" ELSE "none"
         IN  IF s.exc # "none"
             THEN [exc |-> s.exc, obj |-> None, calls |-> s.calls]
             ELSE IF raised # "none"
             THEN [exc |-> IF raised \in FetchCaught THEN "TaxonNotFound"
                           ELSE raised,
                   obj |-> None, calls |-> s.calls \o <<"efetch">>]
             ELSE [exc |-> "none",
                   obj |-> FetchedTaxon(s.taxid, Entry(CHOOSE n \in hits : TRUE)),
                   calls |-> s.calls \o <<"efetch">>]

RECURSIVE common_prefix_loop(_, _, _, _)
\* the while loops of get_distance_between_two_taxa: i runs up to bound and
\* stops at the first difference; returns common_tax_id
common_prefix_loop(a, b, i, bound) ==
    IF i < bound /\ a[i + 1] = b[i + 1]
    THEN <<a[i + 1]>> \o common_prefix_loop(a, b, i + 1, bound)
    ELSE <<>>

\* get_distance_between_two_taxa without the test up_distance != 0: the way
\* down is always counted
get_distance_always_down(self, anothertaxon, penalty_price) ==
    IF IsOne(anothertaxon.taxid)
    THEN Len(self.lineage_taxa_id)
    ELSE LET a == self.lineage_taxa_id
             b == anothertaxon.lineage_taxa_id
             common_tax_id ==
                 IF Len(a) <= Len(b)
                 THEN common_prefix_loop(a, b, 0, Len(a))
                 ELSE common_prefix_loop(a, b, 0, Len(b))
         IN  (Len(a) - Len(common_tax_id))
             + (Len(b) - Len(common_tax_id)) * penalty_price

\* Taxon.get_distance_between_two_taxa
get_distance_between_two_taxa(self, anothertaxon, penalty_price) ==
    IF IsOne(anothertaxon.taxid)
    THEN Len(self.lineage_taxa_id)
    ELSE LET a == self.lineage_taxa_id
             b == anothertaxon.lineage_taxa_id
             common_tax_id ==
                 IF Len(a) <= Len(b)
                 THEN common_prefix_loop(a, b, 0, Len(a))
                 ELSE common_prefix_loop(a, b, 0, Len(b))
             up_distance == Len(a) - Len(common_tax_id)
             down_distance == IF up_distance # 0
                              THEN Len(b) - Len(common_tax_id)
                              ELSE 0
         IN  up_distance + down_distance * penalty_price

----------------------------------------------------------------------------
(* dist_pwy_rxn.py *)

\* json.dumps and json.load on the values a Taxon holds: a str is a JSON
\* string, an int a JSON number, None is null, a list an array
JString(chars) == [jt |-> "string", val |-> chars]
JNumber(digits) == [jt |-> "number", val |-> digits]
JNull == [jt |-> "null", val |-> <<>>]

dumps_value(v) ==
    CASE v.ty = "str"  -> JString(v.val)
      [] v.ty = "int"  -> JNumber(v.val)
      [] v.ty = "none" -> JNull

loads_value(j) ==
    CASE j.jt = "string" -> PyStr(j.val)
      [] j.jt = "number" -> PyInt(j.val)
      [] j.jt = "null"   -> None

ListFields == {"lineage_taxa_name", "lineage_taxa_id"}

\* MyEncoder.default: a Taxon is written as its __dict__
MyEncoder_default(o) ==
    [k \in DOMAIN o |->
        IF k \in ListFields THEN [i \in 1..Len(o[k]) |-> dumps_value(o[k][i])]
        ELSE IF k = "dist_to_root" THEN JNumber(Digits(o[k]))
        ELSE dumps_value(o[k])]

loads_list(a) == [i \in 1..Len(a) |-> loads_value(a[i])]

NoFile == [exists |-> FALSE, doc |-> EmptyMap]

\* write_json: the file holds one JSON object per key of data
write_json(data) ==
    [exists |-> TRUE, doc |-> [elem \in DOMAIN data |-> MyEncoder_default(data[elem])]]

\* the keys read_json reads of each record: data[elem]["lineage_taxa_name"]
\* is read twice and data[elem]["lineage_taxa_id"] never
KeysRead == {"taxid", "scientific_name", "lineage_taxa_name", "parent_taxid"}

\* the value read_json passes as lineage_taxa_id (line 116)
lineage_taxa_id_arg(record) == loads_list(record["lineage_taxa_name"])

\* the Taxon(...) call of read_json for one record
read_json_taxon(record, so, fo) ==
    Taxon(loads_value(record["taxid"]),
          loads_value(record["scientific_name"]),
          loads_list(record["lineage_taxa_name"]),
          lineage_taxa_id_arg(record),
          loads_value(record["parent_taxid"]),
          so, fo)

\* whether Taxon(...) of this record goes to NCBI
NeedsRequest(record) ==
    /\ KeysRead \subseteq DOMAIN record
    /\ read_json_taxon(record, "ok", "ok").calls # <<>>

RECURSIVE read_json_loop(_, _, _, _, _)
\* the loop of read_json over the keys of data, in the file's order; oracle
\* gives what NCBI does for the records that need a request
read_json_loop(data, order, oracle, data_obj, sent) ==
    IF order = <<>>
    THEN [exc |-> "none", data_obj |-> data_obj, calls |-> sent]
    ELSE LET elem == Head(order)
         IN  IF ~(KeysRead \subseteq DOMAIN data[elem])
             THEN [exc |-> "KeyError", data_obj |-> EmptyMap, calls |-> sent]
             ELSE LET o == IF elem \in DOMAIN oracle THEN oracle[elem]
                           ELSE <<"ok", "ok">>
                      r == read_json_taxon(data[elem], o[1], o[2])
                  IN  IF r.exc # "none"
                      THEN [exc |-> r.exc, data_obj |-> EmptyMap,
                            calls |-> sent \o r.calls]
                      ELSE read_json_loop(data, Tail(order), oracle,
                                          (elem :> r.obj) @@ data_obj,
                                          sent \o r.calls)

\* read_json
read_json(file, order, oracle) ==
    IF ~file.exists
    THEN [exc |-> "FileNotFoundError", data_obj |-> EmptyMap, calls |-> <<>>]
    ELSE read_json_loop(file.doc, order, oracle, EmptyMap, <<>>)

\* the orders in which a dict with these keys can be iterated
Orders(keys) ==
    {o \in [1..Cardinality(keys) -> keys] : Range(o) = keys}

\* the record of a file that need a request, with what NCBI can do for each
Oracles(file) ==
    [{elem \in DOMAIN file.doc : NeedsRequest(file.doc[elem])} ->
        SearchOutcomes \X FetchOutcomes]

\* elem.strip('TAX-')
tax_number_of(elem) == strip(elem, {"T", "A", "X", "-"})

\* tax_info keyed by the stripped identifier instead of the label
tax_info_key_stripped(elem, tax_number) == tax_number

\* the key under which turn_taxa_into_taxonomic_info stores a taxon
tax_info_key(elem, tax_number) == elem

\* whether the except clause of turn_taxa_into_taxonomic_info catches exc
turn_taxa_catches(exc) == exc = "TaxonNotFound"

\* the default penalty_price of get_distance_between_two_taxa, which
\* distance_org_taxa uses: it does not pass its own penalty_price on
DefaultPenalty == 20

\* distance_org_taxa
distance_org_taxa(organism, taxaset, taxodic, so, fo) ==
    LET r == Taxon(None, organism, <<>>, <<>>, None, so, fo)
    IN  IF r.exc # "none"
        THEN [exc |-> r.exc, target_orga |-> None, taxdist_dic |-> EmptyMap,
              calls |-> r.calls]
        ELSE [exc |-> "none", target_orga |-> r.obj,
              taxdist_dic |->
                  [taxa \in taxaset \cap DOMAIN taxodic |->
                      get_distance_between_two_taxa(r.obj, taxodic[taxa],
                                                    DefaultPenalty)],
              calls |-> r.calls]

\* min() of a non-empty collection of integers
Min(S) == CHOOSE x \in S : \A y \in S : x <= y

\* the value associate_rxn_dist gives a reaction none of whose taxa is known
Sentinel == 1000

\* associate_rxn_dist giving up on a reaction at its first unknown taxon
rxn_dist_no_retry(txns, taxdistdata_) ==
    IF txns \subseteq DOMAIN taxdistdata_
    THEN {taxdistdata_[txn] : txn \in txns}
    ELSE {}

\* the distances associate_rxn_dist collects for one reaction: the
\* comprehension when every taxon is a key of taxdistdata, and after its
\* KeyError the loop that skips the missing ones
rxn_dist_of(txns, taxdistdata_) ==
    IF txns \subseteq DOMAIN taxdistdata_
    THEN {taxdistdata_[txn] : txn \in txns}
    ELSE {taxdistdata_[txn] : txn \in txns \cap DOMAIN taxdistdata_}

\* associate_rxn_dist
associate_rxn_dist(rxndata_, taxdistdata_) ==
    [rxn \in DOMAIN rxndata_ |->
        LET rxn_dist == rxn_dist_of(rxndata_[rxn], taxdistdata_)
        IN  IF rxn_dist # {} THEN Min(rxn_dist) ELSE Sentinel]

----------------------------------------------------------------------------
(* The inputs *)

\* the labels of the reference database: TAX-4 is a taxon NCBI knows, TAX-7
\* and the later ones are beyond NumNodes
Label(i) == <<"T", "A", "X", "-">> \o Digits(3 * i + 1)
Labels == {Label(i) : i \in 1..NumLabels}
Rxns == {<<"R">> \o Digits(i) : i \in 1..NumRxn}

\* --orga: the name of a taxon NCBI knows, a name it does not know, or absent
OrgaNames == {PyStr(ScientificName(n)) : n \in Nodes} \cup {PyStr(<<"x">>)}

Args == [fromjson : BOOLEAN, tojson : BOOLEAN, padmet : BOOLEAN,
         orga : OrgaNames \cup {None}]

\* Taxon(taxid=...) as NCBI answers it when it answers
TaxonOfNCBI(taxid) == Taxon(taxid, None, <<>>, <<>>, None, "ok", "ok")

\* the cache files an earlier run has written: any set of the labels NCBI
\* knows, each with the Taxon built from NCBI
PriorFiles ==
    {write_json([elem \in S |-> TaxonOfNCBI(PyStr(tax_number_of(elem))).obj]) :
        S \in SUBSET {elem \in Labels :
                        TaxonOfNCBI(PyStr(tax_number_of(elem))).exc = "none"}}

NoError == [exc |-> "none", at |-> "none"]

----------------------------------------------------------------------------
(* __main__ of dist_pwy_rxn.py *)

\* the if / elif chain of __main__
Branch(a) ==
    IF a.fromjson /\ Truthy(a.orga) /\ a.padmet THEN "fromjson"
    ELSE IF a.padmet /\ a.tojson /\ Truthy(a.orga) THEN "tojson"
    ELSE IF a.padmet /\ Truthy(a.orga) THEN "nojson"
    ELSE IF a.padmet /\ a.tojson THEN "tojson_only"
    ELSE "help"

\* every branch resolving the labels at NCBI, a cache loaded or not
AlwaysTurnTaxa(branch) == "turn_taxa"

\* what follows pathway_info in each branch
AfterPathwayInfo(branch) ==
    IF branch = "fromjson" THEN "distance_org_taxa" ELSE "turn_taxa"

\* what follows turn_taxa_into_taxonomic_info in each branch
AfterTurnTaxa(branch) ==
    IF branch \in {"tojson", "tojson_only"} THEN "write_json"
    ELSE "distance_org_taxa"

MainStart ==
    /\ pc = "main"
    /\ args \in Args
    /\ jsonfile \in IF Branch(args) = "fromjson" THEN PriorFiles ELSE {NoFile}
    /\ metacyc_taxa = {}
    /\ reactions_asso_taxa = EmptyMap
    /\ taxoinfo = EmptyMap
    /\ tax_info = EmptyMap
    /\ todo = {}
    /\ taxodist = EmptyMap
    /\ rxn_asso_dist = EmptyMap
    /\ printed = -1
    /\ error = NoError
    /\ calls = <<>>
    /\ outcome = EmptyMap
    /\ fetched = {}
    /\ target_orga = None

\* the variables of the main program while another operation runs alone
MainIdle ==
    /\ pc = "idle"
    /\ args = [fromjson |-> FALSE, tojson |-> FALSE, padmet |-> FALSE, orga |-> None]
    /\ metacyc_taxa = {}
    /\ reactions_asso_taxa = EmptyMap
    /\ taxoinfo = EmptyMap
    /\ tax_info = EmptyMap
    /\ todo = {}
    /\ taxodist = EmptyMap
    /\ rxn_asso_dist = EmptyMap
    /\ printed = -1
    /\ error = NoError
    /\ calls = <<>>
    /\ outcome = EmptyMap
    /\ fetched = {}
    /\ target_orga = None

NotRun == [done |-> FALSE, value |-> 0]
DistIdle == q = None /\ t = None /\ penalty = 0 /\ dist = NotRun
NotRead == [done |-> FALSE, exc |-> "none", data_obj |-> EmptyMap]
JsonIdle == jdata = [given |-> FALSE, data |-> EmptyMap] /\ jread = NotRead
NotAssociated == [done |-> FALSE, value |-> EmptyMap]
AggIdle == rxndata = EmptyMap /\ taxdistdata = EmptyMap /\ all_rxn_dist = NotAssociated

Abort(exc, at) == pc' = "aborted" /\ error' = [exc |-> exc, at |-> at]

\* parser.print_help(); parser.exit()
Main_help ==
    /\ pc = "main"
    /\ Branch(args) = "help"
    /\ pc' = "exit"
    /\ UNCHANGED <<args, metacyc_taxa, reactions_asso_taxa, taxoinfo, tax_info,
                   todo, taxodist, rxn_asso_dist, printed, error, calls, outcome,
                   fetched, target_orga, jsonfile>>
    /\ UNCHANGED <<distVars, jsonVars, aggVars>>

\* taxoinfo = read_json(args.fromjson)
Main_read_json ==
    /\ pc = "main"
    /\ Branch(args) = "fromjson"
    /\ \E order \in Orders(DOMAIN jsonfile.doc), oracle \in Oracles(jsonfile) :
         LET r == read_json(jsonfile, order, oracle)
         IN  /\ calls' = calls \o r.calls
             /\ IF r.exc = "none"
                THEN /\ taxoinfo' = r.data_obj
                     /\ pc' = "pathway_info"
                     /\ error' = error
                ELSE /\ taxoinfo' = taxoinfo
                     /\ Abort(r.exc, "read_json")
    /\ UNCHANGED <<args, metacyc_taxa, reactions_asso_taxa, tax_info, todo,
                   taxodist, rxn_asso_dist, printed, outcome, fetched,
                   target_orga, jsonfile>>
    /\ UNCHANGED <<distVars, jsonVars, aggVars>>

\* metacyc_taxa, reactions_asso_taxa = pathway_info(args.padmet): the padmet
\* file gives each reaction a set of labels; all_taxa is their union
Main_pathway_info ==
    /\ \/ pc = "pathway_info"
       \/ pc = "main" /\ Branch(args) \in {"tojson", "nojson", "tojson_only"}
    /\ \E rxn_in_pwy \in [Rxns -> SUBSET Labels] :
         /\ reactions_asso_taxa' = rxn_in_pwy
         /\ metacyc_taxa' = UNION Range(rxn_in_pwy)
    /\ pc' = AfterPathwayInfo(Branch(args))
    /\ todo' = IF pc' = "turn_taxa" THEN metacyc_taxa' ELSE {}
    /\ tax_info' = EmptyMap
    /\ UNCHANGED <<args, taxoinfo, taxodist, rxn_asso_dist, printed, error,
                   calls, outcome, fetched, target_orga, jsonfile>>
    /\ UNCHANGED <<distVars, jsonVars, aggVars>>

\* one iteration of the loop of turn_taxa_into_taxonomic_info
Main_turn_taxa_step ==
    /\ pc = "turn_taxa"
    /\ todo # {}
    /\ \E elem \in todo, fo \in FetchOutcomes :
         LET tax_number == tax_number_of(elem)
             r == Taxon(PyStr(tax_number), None, <<>>, <<>>, None, "ok", fo)
         IN  /\ outcome' = (elem :> r.exc) @@ outcome
             /\ fetched' = IF r.calls # <<>>
                           THEN fetched \cup {[label |-> elem, id |-> PyStr(tax_number)]}
                           ELSE fetched
             /\ IF r.exc = "none" \/ turn_taxa_catches(r.exc)
                THEN /\ tax_info' = IF r.exc = "none"
                                    THEN (tax_info_key(elem, tax_number) :> r.obj)
                                         @@ tax_info
                                    ELSE tax_info
                     /\ calls' = calls \o r.calls \o <<"sleep">>
                     /\ todo' = todo \ {elem}
                     /\ UNCHANGED <<pc, error>>
                ELSE /\ calls' = calls \o r.calls
                     /\ Abort(r.exc, "turn_taxa")
                     /\ UNCHANGED <<tax_info, todo>>
    /\ UNCHANGED <<args, metacyc_taxa, reactions_asso_taxa, taxoinfo, taxodist,
                   rxn_asso_dist, printed, target_orga, jsonfile>>
    /\ UNCHANGED <<distVars, jsonVars, aggVars>>

\* return(tax_info), assigned to taxoinfo
Main_turn_taxa_return ==
    /\ pc = "turn_taxa"
    /\ todo = {}
    /\ taxoinfo' = tax_info
    /\ pc' = AfterTurnTaxa(Branch(args))
    /\ UNCHANGED <<args, metacyc_taxa, reactions_asso_taxa, tax_info, todo,
                   taxodist, rxn_asso_dist, printed, error, calls, outcome,
                   fetched, target_orga, jsonfile>>
    /\ UNCHANGED <<distVars, jsonVars, aggVars>>

\* write_json(taxoinfo, args.tojson)
Main_write_json ==
    /\ pc = "write_json"
    /\ jsonfile' = write_json(taxoinfo)
    /\ pc' = IF Branch(args) = "tojson_only" THEN "exit" ELSE "distance_org_taxa"
    /\ UNCHANGED <<args, metacyc_taxa, reactions_asso_taxa, taxoinfo, tax_info,
                   todo, taxodist, rxn_asso_dist, printed, error, calls, outcome,
                   fetched, target_orga>>
    /\ UNCHANGED <<distVars, jsonVars, aggVars>>

\* taxodist = distance_org_taxa(args.orga, metacyc_taxa, taxoinfo, email)
Main_distance_org_taxa ==
    /\ pc = "distance_org_taxa"
    /\ \E so \in SearchOutcomes, fo \in FetchOutcomes :
         LET r == distance_org_taxa(args.orga, metacyc_taxa, taxoinfo, so, fo)
         IN  /\ calls' = calls \o r.calls
             /\ IF r.exc = "none"
                THEN /\ target_orga' = r.target_orga
                     /\ taxodist' = r.taxdist_dic
                     /\ pc' = "associate_rxn_dist"
                     /\ error' = error
                ELSE /\ Abort(r.exc, "distance_org_taxa")
                     /\ UNCHANGED <<target_orga, taxodist>>
    /\ UNCHANGED <<args, metacyc_taxa, reactions_asso_taxa, taxoinfo, tax_info,
                   todo, rxn_asso_dist, printed, outcome, fetched, jsonfile>>
    /\ UNCHANGED <<distVars, jsonVars, aggVars>>

\* rxn_asso_dist = associate_rxn_dist(...); print(len(rxn_asso_dist))
Main_associate_rxn_dist ==
    /\ pc = "associate_rxn_dist"
    /\ rxn_asso_dist' = associate_rxn_dist(reactions_asso_taxa, taxodist)
    /\ printed' = Cardinality(DOMAIN rxn_asso_dist')
    /\ pc' = "done"
    /\ UNCHANGED <<args, metacyc_taxa, reactions_asso_taxa, taxoinfo, tax_info,
                   todo, taxodist, error, calls, outcome, fetched, target_orga,
                   jsonfile>>
    /\ UNCHANGED <<distVars, jsonVars, aggVars>>

Init == MainStart /\ DistIdle /\ JsonIdle /\ AggIdle

Next ==
    \/ Main_help
    \/ Main_read_json
    \/ Main_pathway_info
    \/ Main_turn_taxa_step
    \/ Main_turn_taxa_return
    \/ Main_write_json
    \/ Main_distance_org_taxa
    \/ Main_associate_rxn_dist

Spec == Init /\ [][Next]_vars

----------------------------------------------------------------------------
(* get_distance_between_two_taxa on drawn taxa *)

\* the taxa NCBI resolves by identifier
ResolvedTaxa == {TaxonOfNCBI(PyStr(Digits(n))).obj : n \in Nodes}

\* a taxon as it comes back from a cache file that holds it
LoadedTaxon(o) ==
    read_json(write_json(Label(1) :> o), <<Label(1)>>, EmptyMap).data_obj[Label(1)]

RECURSIVE SeqsUpTo(_, _)
\* the non-empty sequences over S of length at most n
SeqsUpTo(S, n) ==
    IF n = 0 THEN {}
    ELSE LET shorter == SeqsUpTo(S, n - 1)
         IN  {<<x>> : x \in S} \cup shorter
             \cup {Append(s, x) : s \in shorter, x \in S}

\* taxa given with all their fields: any lineage, and a taxid that is the
\* int 1, the str "1" or another str
DrawnTaxa ==
    {Taxon(taxid, PyStr(<<"n">>), <<PyStr(<<"n">>)>>, lineage, PyStr(<<"0">>),
           "ok", "ok").obj :
        taxid \in {PyInt(<<"1">>), PyStr(<<"1">>), PyStr(<<"4">>)},
        lineage \in SeqsUpTo({PyStr(<<"2">>), PyStr(<<"4">>)}, MaxLineage)}

DistTaxa == DrawnTaxa \cup ResolvedTaxa \cup {LoadedTaxon(o) : o \in ResolvedTaxa}

Penalties == {-1, 0, 1, DefaultPenalty}

DistStart ==
    /\ q \in DistTaxa
    /\ t \in DistTaxa
    /\ penalty \in Penalties
    /\ dist = NotRun

\* q.get_distance_between_two_taxa(t, penalty)
Dist_call ==
    /\ ~dist.done
    /\ q # None
    /\ dist' = [done |-> TRUE, value |-> get_distance_between_two_taxa(q, t, penalty)]
    /\ UNCHANGED <<q, t, penalty>>
    /\ UNCHANGED <<mainVars, jsonfile, jsonVars, aggVars>>

InitDist == MainIdle /\ jsonfile = NoFile /\ DistStart /\ JsonIdle /\ AggIdle

NextDist == Dist_call

SpecDist == InitDist /\ [][NextDist]_vars

----------------------------------------------------------------------------
(* write_json and read_json on drawn dicts and files *)

\* a Taxon given with all its fields whose two lineages hold the same values
SameLineages ==
    Taxon(PyStr(<<"9">>), PyStr(<<"9">>), <<PyStr(<<"9">>)>>, <<PyStr(<<"9">>)>>,
          PyStr(<<"1">>), "ok", "ok").obj

SavedTaxa == ResolvedTaxa \cup {SameLineages}

TaxonMaps == UNION {[S -> SavedTaxa] : S \in SUBSET Labels}

FiveFields == {"taxid", "scientific_name", "lineage_taxa_name",
               "lineage_taxa_id", "parent_taxid"}

\* a cache file one of whose records has lost the key k
DropKey(file, elem, k) ==
    [file EXCEPT !.doc[elem] = [kk \in DOMAIN @ \ {k} |-> @[kk]]]

\* a cache file one of whose records has an empty value under k
Blank(file, elem, k) ==
    [file EXCEPT !.doc[elem][k] = IF k \in ListFields THEN <<>> ELSE JString(<<>>)]

\* the cache files that differ from write_json(m) in one value of one record
Touched(m) == {DropKey(write_json(m), elem, k) : elem \in DOMAIN m, k \in FiveFields}
              \cup {Blank(write_json(m), elem, k) : elem \in DOMAIN m, k \in FiveFields}

JsonStart ==
    \/ /\ jdata \in {[given |-> TRUE, data |-> m] : m \in TaxonMaps}
       /\ jsonfile = NoFile
       /\ jread = NotRead
    \/ /\ jdata = [given |-> FALSE, data |-> EmptyMap]
       /\ jsonfile \in UNION {Touched(m) : m \in TaxonMaps}
       /\ jread = NotRead

\* write_json(jdata, jsonfile)
Json_write ==
    /\ jdata.given
    /\ ~jsonfile.exists
    /\ jsonfile' = write_json(jdata.data)
    /\ UNCHANGED <<jdata, jread>>
    /\ UNCHANGED <<mainVars, distVars, aggVars>>

\* read_json(jsonfile)
Json_read ==
    /\ jsonfile.exists
    /\ ~jread.done
    /\ \E order \in Orders(DOMAIN jsonfile.doc), oracle \in Oracles(jsonfile) :
         LET r == read_json(jsonfile, order, oracle)
         IN  jread' = [done |-> TRUE, exc |-> r.exc, data_obj |-> r.data_obj]
    /\ UNCHANGED <<jdata, jsonfile>>
    /\ UNCHANGED <<mainVars, distVars, aggVars>>

InitJson == MainIdle /\ DistIdle /\ JsonStart /\ AggIdle

NextJson == Json_write \/ Json_read

SpecJson == InitJson /\ [][NextJson]_vars

----------------------------------------------------------------------------
(* associate_rxn_dist on drawn dicts *)

Txns == {Label(i) : i \in 1..NumTxn}

AggStart ==
    /\ rxndata \in [Rxns -> SUBSET Txns]
    /\ taxdistdata \in UNION {[S -> 0..MaxDist] : S \in SUBSET Txns}
    /\ all_rxn_dist = NotAssociated

\* associate_rxn_dist(rxndata, taxdistdata)
Agg_call ==
    /\ ~all_rxn_dist.done
    /\ DOMAIN rxndata # {}
    /\ all_rxn_dist' = [done |-> TRUE, value |-> associate_rxn_dist(rxndata, taxdistdata)]
    /\ UNCHANGED <<rxndata, taxdistdata>>
    /\ UNCHANGED <<mainVars, jsonfile, distVars, jsonVars>>

InitAgg == MainIdle /\ jsonfile = NoFile /\ DistIdle /\ JsonIdle /\ AggStart

NextAgg == Agg_call

SpecAgg == InitAgg /\ [][NextAgg]_vars

----------------------------------------------------------------------------
(* Properties *)

\* C1: read_json of the file write_json wrote for a non-empty dict of fully
\* populated Taxon objects returns the same labels, each with the five fields
\* it was saved with (lineage_taxa_id included).
C1_RoundTrip ==
    (jdata.given /\ jdata.data # EmptyMap /\ jread.done) =>
        /\ jread.exc = "none"
        /\ DOMAIN jread.data_obj = DOMAIN jdata.data
        /\ \A elem \in DOMAIN jdata.data : \A k \in FiveFields :
              jread.data_obj[elem][k] = jdata.data[elem][k]

\* the length of the longest common prefix of two sequences
LongestCommonPrefix(a, b) ==
    CHOOSE c \in 0..Min({Len(a), Len(b)}) :
        /\ \A i \in 1..c : a[i] = b[i]
        /\ (c < Len(a) /\ c < Len(b)) => a[c + 1] # b[c + 1]

\* a taxid that denotes the root of the taxonomy, taxon 1
DenotesRoot(taxid) == taxid.val = <<"1">>

UpDistance(a, b) == Len(a) - LongestCommonPrefix(a, b)
DownDistance(a, b) ==
    IF UpDistance(a, b) = 0 THEN 0 ELSE Len(b) - LongestCommonPrefix(a, b)

\* C2: for a target that is not the root, the distance is upDistance +
\* downDistance * penalty, with c the length of the longest common prefix of
\* the two lineage_taxa_id, upDistance = len(query) - c and downDistance = 0
\* when upDistance = 0 and len(target) - c otherwise, whichever is longer.
C2_Distance ==
    (dist.done /\ ~DenotesRoot(t.taxid)) =>
        dist.value = UpDistance(q.lineage_taxa_id, t.lineage_taxa_id)
                     + DownDistance(q.lineage_taxa_id, t.lineage_taxa_id) * penalty

\* a query longer than its target, both below a common ancestor, and a
\* penalty that counts: one way up and one way down
C2_Witness ==
    /\ dist.done
    /\ ~DenotesRoot(t.taxid)
    /\ penalty = DefaultPenalty
    /\ Len(q.lineage_taxa_id) > Len(t.lineage_taxa_id)
    /\ LongestCommonPrefix(q.lineage_taxa_id, t.lineage_taxa_id) = 1
    /\ UpDistance(q.lineage_taxa_id, t.lineage_taxa_id) = 2
    /\ DownDistance(q.lineage_taxa_id, t.lineage_taxa_id) = 1
    /\ dist.value = 2 + DefaultPenalty

\* the root as NCBI resolves it from its identifier, and as it comes back
\* from a cache file
RootAsProduced ==
    LET root == TaxonOfNCBI(PyStr(tax_number_of(<<"T", "A", "X", "-", "1">>))).obj
    IN  {root, LoadedTaxon(root)}

\* C3: the distance of any query to the root, as the program produces the
\* root, is the length of the query's lineage_taxa_id, whatever the penalty.
C3_RootDistance ==
    (dist.done /\ t \in RootAsProduced) => dist.value = Len(q.lineage_taxa_id)

\* the candidates of a reaction that have a distance
Resolved(rxn) == rxndata[rxn] \cap DOMAIN taxdistdata

\* C4: associate_rxn_dist returns the reactions of rxndata, each with the
\* minimum distance of its candidates that have one, and with 1000 when none
\* of its candidates has one; a candidate with no distance is skipped.
C4_Aggregate ==
    all_rxn_dist.done =>
        /\ DOMAIN all_rxn_dist.value = DOMAIN rxndata
        /\ \A rxn \in DOMAIN rxndata :
              IF Resolved(rxn) = {}
              THEN all_rxn_dist.value[rxn] = 1000
              ELSE /\ \E txn \in Resolved(rxn) :
                         all_rxn_dist.value[rxn] = taxdistdata[txn]
                   /\ \A txn \in Resolved(rxn) :
                         all_rxn_dist.value[rxn] <= taxdistdata[txn]

\* one reaction with two candidates at different distances and a third with
\* none, another reaction with no candidate that has a distance
C4_Witness ==
    /\ all_rxn_dist.done
    /\ \E r1, r2 \in DOMAIN rxndata :
         /\ Cardinality(Resolved(r1)) = 2
         /\ rxndata[r1] \ DOMAIN taxdistdata # {}
         /\ \E x, y \in Resolved(r1) : taxdistdata[x] < taxdistdata[y]
         /\ all_rxn_dist.value[r1] = Min({taxdistdata[x] : x \in Resolved(r1)})
         /\ rxndata[r2] # {}
         /\ Resolved(r2) = {}
         /\ all_rxn_dist.value[r2] = 1000

\* the taxa known before any resolution: the dict read_json gave in the
\* branch that loads a cache, nothing in the others
KnownTaxa ==
    IF Branch(args) = "fromjson" /\ pc # "main" THEN taxoinfo ELSE EmptyMap

\* the label without its prefix TAX-
WithoutPrefix(label) == SubSeq(label, 5, Len(label))

\* C5: a label of the known map causes no request to NCBI and its Taxon is
\* used as loaded; only labels absent from the known map are fetched, with
\* the identifier that follows the prefix.
C5_CacheReuse ==
    /\ \A f \in fetched :
          /\ f.label \notin DOMAIN KnownTaxa
          /\ f.id = PyStr(WithoutPrefix(f.label))
    /\ Branch(args) = "fromjson" =>
          /\ \A i \in 1..Len(calls) : calls[i] # "sleep"
          /\ Len(calls) <= 2
          /\ pc \in {"pathway_info", "distance_org_taxa"} => calls = <<>>
          /\ pc # "main" =>
                \E order \in Orders(DOMAIN jsonfile.doc) :
                    taxoinfo = read_json(jsonfile, order, EmptyMap).data_obj
          /\ pc \in {"associate_rxn_dist", "done"} =>
                DOMAIN taxodist = metacyc_taxa \cap DOMAIN KnownTaxa

\* a run on a loaded cache that ended with the distance of a cached label,
\* having asked NCBI for the organism alone
C5_Witness ==
    /\ Branch(args) = "fromjson"
    /\ pc = "done"
    /\ Label(1) \in DOMAIN KnownTaxa
    /\ Label(1) \in DOMAIN taxodist
    /\ fetched = {}
    /\ calls = <<"esearch", "efetch">>

\* turn_taxa_into_taxonomic_info has returned
TurnTaxaReturned ==
    /\ Branch(args) \in {"tojson", "nojson", "tojson_only"}
    /\ \/ pc \in {"write_json", "distance_org_taxa", "associate_rxn_dist",
                  "done", "exit"}
       \/ pc = "aborted" /\ error.at # "turn_taxa"

\* C6: turn_taxa_into_taxonomic_info visits every label, does not end on a
\* TaxonNotFound, and returns a dict whose keys are the labels, as given,
\* whose Taxon was built.
C6_DropAndContinue ==
    /\ DOMAIN tax_info = {elem \in DOMAIN outcome : outcome[elem] = "none"}
    /\ ~(pc = "aborted" /\ error.at = "turn_taxa" /\ error.exc = "TaxonNotFound")
    /\ pc = "turn_taxa" => DOMAIN outcome = metacyc_taxa \ todo
    /\ TurnTaxaReturned =>
          /\ DOMAIN outcome = metacyc_taxa
          /\ DOMAIN taxoinfo = {elem \in metacyc_taxa : outcome[elem] = "none"}

\* a return after one label was resolved and another was not found
C6_Witness ==
    /\ TurnTaxaReturned
    /\ \E found, lost \in metacyc_taxa :
         /\ outcome[found] = "none"
         /\ outcome[lost] = "TaxonNotFound"
         /\ DOMAIN taxoinfo = {found}

\* C7: a request to NCBI that fails makes the construction of a Taxon fail
\* with TaxonNotFound and with no other exception.
C7_OnlyNotFound ==
    /\ \A elem \in DOMAIN outcome : outcome[elem] \in {"none", "TaxonNotFound"}
    /\ error.at \in {"turn_taxa", "distance_org_taxa"} => error.exc = "TaxonNotFound"

IsRequest(c) == c \in {"esearch", "efetch"}

\* C8: a wait of 350 ms lies between any two consecutive requests to NCBI,
\* every efetch comes right after a wait, and a run on known taxa alone waits
\* at no step.
C8_RateLimit ==
    /\ \A i \in 2..Len(calls) : IsRequest(calls[i]) => calls[i - 1] = "sleep"
    /\ \A i \in 1..Len(calls) :
          calls[i] = "efetch" => (i > 1 /\ calls[i - 1] = "sleep")
    /\ Branch(args) = "fromjson" => \A i \in 1..Len(calls) : calls[i] # "sleep"

\* C9: read_json of a file one of whose records lacks one of the five fields
\* raises and returns no dict.
C9_SchemaCheck ==
    (jread.done /\ \E elem \in DOMAIN jsonfile.doc :
                      ~(FiveFields \subseteq DOMAIN jsonfile.doc[elem]))
        => jread.exc # "none"

\* C10: a run in one of the three modes with an organism ends normally, with
\* the distance of every reaction and their count printed.
C10_RunCompletes ==
    (Branch(args) \in {"fromjson", "tojson", "nojson"} /\ pc \in {"done", "aborted"})
        => /\ pc = "done"
           /\ DOMAIN rxn_asso_dist = DOMAIN reactions_asso_taxa
           /\ printed = Cardinality(DOMAIN reactions_asso_taxa)

====
